---- MODULE Spec2Model ----
(***************************************************************************)
(* A model of the trading-bot webhook relay (src/app.py): a Flask handler  *)
(* that authenticates a POST /webhook, parses the alert, submits one order *)
(* to the exchange client and reports the result.                          *)
(*                                                                         *)
(* Representation.  Python strings that the code inspects character by     *)
(* character (symbols, signatures) are sequences of one-character strings. *)
(* Python values are tagged records: None, PyStr, PyNum, PyList, PyDict.   *)
(* Numbers are held in thousandths (0.001 is 1, 0.5 is 500).  Messages     *)
(* that the code only copies (exception texts) are TLA+ strings.           *)
(* The request body is a text that round-trips through                     *)
(* get_data(as_text=True) and .encode() (valid UTF-8).                     *)
(***************************************************************************)
EXTENDS Integers, Sequences, FiniteSets, TLC

VARIABLES requests, invocation

vars == <<requests, invocation>>

\* ------------------------------------------------------------------ bounds
\* The number of webhook deliveries one behaviour holds.
MaxRequests == 2
\* The number of pieces a generated symbol string is made of.
MaxParts == 2

\* ------------------------------------------------------- character strings
BINANCE_PREFIX == <<"B", "I", "N", "A", "N", "C", "E", ":">>
USDT == <<"U", "S", "D", "T">>
BTC == <<"B", "T", "C">>
BTCUSDT == BTC \o USDT
ETHUSDT == <<"E", "T", "H">> \o USDT
BUY == <<"B", "U", "Y">>
SELL == <<"S", "E", "L", "L">>

LowerLetters == <<"a", "b", "c", "d", "e", "f", "g", "h", "i", "j", "k", "l", "m",
                  "n", "o", "p", "q", "r", "s", "t", "u", "v", "w", "x", "y", "z">>
UpperLetters == <<"A", "B", "C", "D", "E", "F", "G", "H", "I", "J", "K", "L", "M",
                  "N", "O", "P", "Q", "R", "S", "T", "U", "V", "W", "X", "Y", "Z">>
Digits == <<"0", "1", "2", "3", "4", "5", "6", "7", "8", "9">>

InSeq(c, s) == \E i \in 1..Len(s) : s[i] = c

\* The characters of the model that are ASCII; any other character is not.
IsAsciiChar(c) ==
    InSeq(c, LowerLetters) \/ InSeq(c, UpperLetters) \/ InSeq(c, Digits)
        \/ c \in {":", "-", "+", "."}

IsAscii(s) == \A i \in 1..Len(s) : IsAsciiChar(s[i])

\* A character outside ASCII (a header byte 0xE9, read as latin-1).
NonAsciiChar == "U+00E9"

UpperChar(c) ==
    IF InSeq(c, LowerLetters)
    THEN UpperLetters[CHOOSE i \in 1..Len(LowerLetters) : LowerLetters[i] = c]
    ELSE c

\* str.upper()
str_upper(s) == [i \in 1..Len(s) |-> UpperChar(s[i])]

\* str.endswith(suffix)
str_endswith(s, suffix) ==
    /\ Len(s) >= Len(suffix)
    /\ SubSeq(s, Len(s) - Len(suffix) + 1, Len(s)) = suffix

\* str.replace(old, ''): every non-overlapping occurrence of old, scanned
\* from the left, is removed.
RECURSIVE str_remove_all(_, _)
str_remove_all(s, old) ==
    IF Len(s) < Len(old) THEN s
    ELSE IF SubSeq(s, 1, Len(old)) = old
         THEN str_remove_all(SubSeq(s, Len(old) + 1, Len(s)), old)
         ELSE <<Head(s)>> \o str_remove_all(Tail(s), old)

\* ------------------------------------------------------------ Python values
None == [t |-> "NoneType"]
PyStr(s) == [t |-> "str", s |-> s]
PyNum(n) == [t |-> "float", n |-> n]
PyList == [t |-> "list"]
PyDict(f) == [t |-> "dict", f |-> f]

\* The outcome of an expression that may raise.
Ok(v) == [ok |-> TRUE, v |-> v]
Raise(exc, msg) == [ok |-> FALSE, exc |-> exc, msg |-> msg]

\* Python truthiness of the values the code tests with `if x` / `and x`.
Truthy(v) ==
    CASE v.t = "NoneType" -> FALSE
      [] v.t = "str" -> v.s # <<>>
      [] v.t = "float" -> v.n # 0
      [] v.t = "list" -> FALSE
      [] v.t = "dict" -> DOMAIN v.f # {}
      [] OTHER -> TRUE

\* dict.get(key, default)
dict_get(d, key, default) == IF key \in DOMAIN d.f THEN d.f[key] ELSE default

\* A numeral: an optional sign and one or more decimal digits.
IsNumeral(s) ==
    LET body == IF s # <<>> /\ Head(s) \in {"-", "+"} THEN Tail(s) ELSE s
    IN  body # <<>> /\ \A i \in 1..Len(body) : InSeq(body[i], Digits)

DigitValue(c) == (CHOOSE i \in 1..Len(Digits) : Digits[i] = c) - 1

RECURSIVE DigitsValue(_)
DigitsValue(s) ==
    IF s = <<>> THEN 0
    ELSE 10 * DigitsValue(SubSeq(s, 1, Len(s) - 1)) + DigitValue(s[Len(s)])

\* The value of a numeral, in thousandths.
NumeralValue(s) ==
    IF Head(s) = "-" THEN 0 - 1000 * DigitsValue(Tail(s))
    ELSE IF Head(s) = "+" THEN 1000 * DigitsValue(Tail(s))
    ELSE 1000 * DigitsValue(s)

\* float(x): a number converts to itself, a numeral string to its value, any
\* other string raises ValueError and any other type TypeError.
float(v) ==
    CASE v.t = "float" -> Ok(v)
      [] v.t = "str" ->
            IF IsNumeral(v.s) THEN Ok(PyNum(NumeralValue(v.s)))
            ELSE Raise("ValueError", "could not convert string to float")
      [] OTHER -> Raise("TypeError", "float() argument must be a string or a real number")

\* ------------------------------------------------------------ request body
\* The raw body: a text that is the JSON serialisation of doc, or no JSON.
Malformed == [t |-> "malformed"]
Text(doc) == [t |-> "text", doc |-> doc]

\* isinstance(data, str)
isinstance_str(data) == data.t = "text"

\* json.loads(text)
json_loads(data) ==
    IF data.doc = Malformed
    THEN Raise("JSONDecodeError", "Expecting value")
    ELSE Ok(data.doc)

\* --------------------------------------------------------------- signatures
\* The value of the X-Tradingview-Signature header: either the literal
\* characters chars, or (mac # NoMac) the 64 hex digits of HMAC-SHA256 of
\* mac.msg under mac.key.  HMAC is collision free: two digests are the same
\* string exactly when key and message are the same.
NoMac == [t |-> "none"]
Literal(chars) == [chars |-> chars, mac |-> NoMac]
WEBHOOK_SECRET == "your-webhook-secret"

\* hmac.new(key, msg, hashlib.sha256).hexdigest()
hmac_hexdigest(key, msg) == [chars |-> <<>>, mac |-> [t |-> "hmac", key |-> key, msg |-> msg]]

HeaderIsAscii(h) == h.mac # NoMac \/ IsAscii(h.chars)

\* hmac.compare_digest(a, b) on two str: TypeError unless both are ASCII.
compare_digest(a, b) ==
    IF HeaderIsAscii(a) /\ HeaderIsAscii(b) THEN Ok(a = b)
    ELSE Raise("TypeError", "comparing strings with non-ASCII characters is not supported")

verify_webhook_signature(request_data, signature) ==
    compare_digest(hmac_hexdigest(WEBHOOK_SECRET, request_data), signature)

\* ------------------------------------------------------------- alert parser
DefaultQuantity == 1

Alert(symbol, signal, side, quantity, price) ==
    [t |-> "alert", symbol |-> symbol, signal |-> signal, side |-> side,
     quantity |-> quantity, price |-> price]

\* Faulty variant: a quantity that does not convert falls back to the default
\* instead of failing the parse.
parse_tradingview_alert_LenientQuantity(data) ==
    LET loaded == IF isinstance_str(data) THEN json_loads(data) ELSE Ok(data)
    IN  IF ~loaded.ok THEN None
        ELSE LET alert_data == loaded.v
             IN  IF alert_data.t # "dict" THEN None
                 ELSE LET symbol == dict_get(alert_data, "symbol", PyStr(<<>>))
                          quantity == float(dict_get(alert_data, "quantity",
                                                     PyNum(DefaultQuantity)))
                      IN  IF symbol.t # "str" THEN None
                          ELSE Alert(PyStr(str_remove_all(symbol.s, BINANCE_PREFIX)),
                                     dict_get(alert_data, "signal", PyStr(BUY)),
                                     dict_get(alert_data, "side", PyStr(BUY)),
                                     IF quantity.ok THEN quantity.v
                                     ELSE PyNum(DefaultQuantity),
                                     dict_get(alert_data, "price", None))

\* Faulty variant: defaults applied with `get(key) or default`, so a present
\* but falsy value (quantity 0) is replaced by the default.
parse_tradingview_alert_FalsyDefaults(data) ==
    LET loaded == IF isinstance_str(data) THEN json_loads(data) ELSE Ok(data)
        or_default(d, key, default) ==
            IF Truthy(dict_get(d, key, None)) THEN dict_get(d, key, None) ELSE default
    IN  IF ~loaded.ok THEN None
        ELSE LET alert_data == loaded.v
             IN  IF alert_data.t # "dict" THEN None
                 ELSE LET symbol == dict_get(alert_data, "symbol", PyStr(<<>>))
                          quantity == float(or_default(alert_data, "quantity",
                                                       PyNum(DefaultQuantity)))
                      IN  IF symbol.t # "str" THEN None
                          ELSE IF ~quantity.ok THEN None
                          ELSE Alert(PyStr(str_remove_all(symbol.s, BINANCE_PREFIX)),
                                     or_default(alert_data, "signal", PyStr(BUY)),
                                     or_default(alert_data, "side", PyStr(BUY)),
                                     quantity.v,
                                     dict_get(alert_data, "price", None))

\* parse_tradingview_alert: every exception of the body is caught and turns
\* into None.  The timestamp field (the wall clock, read by nothing) is left
\* out of the record.
parse_tradingview_alert(data) ==
    LET loaded == IF isinstance_str(data) THEN json_loads(data) ELSE Ok(data)
    IN  IF ~loaded.ok THEN None
        ELSE LET alert_data == loaded.v
             IN  IF alert_data.t # "dict" THEN None
                 ELSE LET symbol == dict_get(alert_data, "symbol", PyStr(<<>>))
                          quantity == float(dict_get(alert_data, "quantity",
                                                     PyNum(DefaultQuantity)))
                      IN  IF symbol.t # "str" THEN None
                          ELSE IF ~quantity.ok THEN None
                          ELSE Alert(PyStr(str_remove_all(symbol.s, BINANCE_PREFIX)),
                                     dict_get(alert_data, "signal", PyStr(BUY)),
                                     dict_get(alert_data, "side", PyStr(BUY)),
                                     quantity.v,
                                     dict_get(alert_data, "price", None))

\* ----------------------------------------------------------- order submitter
\* What the exchange client does with one order call: it returns an order or
\* raises an exception whose text is msg.
Returns(orderId, status) == [raises |-> FALSE, orderId |-> orderId, status |-> status, msg |-> ""]
Raises(msg) == [raises |-> TRUE, orderId |-> 0, status |-> "", msg |-> msg]
NoOutcome == [raises |-> FALSE, orderId |-> 0, status |-> "", msg |-> "no call"]

ExchangeOutcomes ==
    {Returns(1, "FILLED"), Raises("APIError(code=-2010): insufficient balance"), Raises("")}

\* Faulty variant: the suffix is appended without looking at the symbol.
NormalizeSymbol_AlwaysSuffix(symbol) == str_upper(symbol) \o USDT

\* Lines 55-56: the symbol the exchange is asked for.
NormalizeSymbol(symbol) ==
    IF ~str_endswith(symbol, USDT) THEN str_upper(symbol) \o USDT ELSE symbol

MarketCall(symbol, side, quantity) ==
    [fn |-> "order_market", symbol |-> symbol, side |-> side, quantity |-> quantity]

LimitCall(symbol, side, quantity, price) ==
    [fn |-> "order_limit", symbol |-> symbol, side |-> side, timeInForce |-> "GTC",
     quantity |-> quantity, price |-> price]

Failure(error) == [success |-> FALSE, error |-> error]

\* Faulty variant: a call that raised is made a second time.
Submitted_Retry(call, outcome) ==
    [calls |-> IF outcome.raises THEN <<call, call>> ELSE <<call>>,
     result |-> IF outcome.raises THEN Failure(outcome.msg)
                ELSE [success |-> TRUE, order_id |-> outcome.orderId,
                      symbol |-> call.symbol, side |-> call.side,
                      quantity |-> call.quantity, status |-> outcome.status]]

\* The tail of place_order once the exchange call is chosen: the call is
\* made once; its exception, if any, becomes a failure result.
Submitted(call, outcome) ==
    [calls |-> <<call>>,
     result |-> IF outcome.raises THEN Failure(outcome.msg)
                ELSE [success |-> TRUE, order_id |-> outcome.orderId,
                      symbol |-> call.symbol, side |-> call.side,
                      quantity |-> call.quantity, status |-> outcome.status]]

\* place_order(symbol, side, quantity, order_type, price) against an exchange
\* that answers the call with outcome: the result and the calls made.
place_order(symbol, side, quantity, order_type, price, outcome) ==
    IF symbol.t # "str"
    THEN [calls |-> <<>>, result |-> Failure("object has no attribute 'endswith'")]
    ELSE LET sym == NormalizeSymbol(symbol.s)
         IN  IF order_type = "MARKET"
             THEN Submitted(MarketCall(sym, side, quantity), outcome)
             ELSE IF order_type = "LIMIT" /\ Truthy(price)
             THEN Submitted(LimitCall(sym, side, quantity, price), outcome)
             ELSE [calls |-> <<>>,
                   result |-> Failure("Invalid order type: " \o order_type)]

\* ------------------------------------------------------------- HTTP handler
Response(code, json) == [code |-> code, json |-> json]

Handled(response, alert_data, parsed, calls) ==
    [response |-> response, alert_data |-> alert_data, parsed |-> parsed, calls |-> calls]

\* Faulty variant: an alert that carries a price is submitted as a limit order.
webhook_after_signature_LimitWhenPriced(raw_data, outcome) ==
    LET alert_data == parse_tradingview_alert(raw_data)
    IN  IF ~Truthy(alert_data)
        THEN Handled(Response(400, [error |-> "Invalid alert data"]), alert_data, 1, <<>>)
        ELSE LET po == place_order(alert_data.symbol, alert_data.side,
                                   alert_data.quantity,
                                   IF Truthy(alert_data.price) THEN "LIMIT" ELSE "MARKET",
                                   alert_data.price,
                                   outcome)
             IN  IF po.result.success
                 THEN Handled(Response(200, [status |-> "success",
                                             message |-> "Order placed successfully",
                                             order |-> po.result]),
                              alert_data, 1, po.calls)
                 ELSE Handled(Response(400, [status |-> "error",
                                             message |-> "Failed to place order",
                                             error |-> po.result.error]),
                              alert_data, 1, po.calls)

\* Lines 96-120: the handler after the signature step.
webhook_after_signature(raw_data, outcome) ==
    LET alert_data == parse_tradingview_alert(raw_data)
    IN  IF ~Truthy(alert_data)
        THEN Handled(Response(400, [error |-> "Invalid alert data"]), alert_data, 1, <<>>)
        ELSE LET po == place_order(alert_data.symbol, alert_data.side,
                                   alert_data.quantity, "MARKET", alert_data.price,
                                   outcome)
             IN  IF po.result.success
                 THEN Handled(Response(200, [status |-> "success",
                                             message |-> "Order placed successfully",
                                             order |-> po.result]),
                              alert_data, 1, po.calls)
                 ELSE Handled(Response(400, [status |-> "error",
                                             message |-> "Failed to place order",
                                             error |-> po.result.error]),
                              alert_data, 1, po.calls)

\* Faulty variant: the signature is verified also when the header is missing.
signature_step_Required(raw_data, signature) ==
    verify_webhook_signature(raw_data, signature)

\* Lines 90-94: the signature step.  A missing or empty header is not
\* verified; otherwise the value is whether the signature matched, or the
\* exception that the outer handler turns into 500.
signature_step(raw_data, signature) ==
    IF signature = Literal(<<>>) THEN Ok(TRUE)
    ELSE verify_webhook_signature(raw_data, signature)

\* webhook(): one POST /webhook with body raw_data and header signature
\* ('' when the header is missing), the exchange answering with outcome.
webhook(raw_data, signature, outcome) ==
    LET verified == signature_step(raw_data, signature)
    IN  IF ~verified.ok
        THEN Handled(Response(500, [error |-> verified.msg]), None, 0, <<>>)
        ELSE IF ~verified.v
        THEN Handled(Response(401, [error |-> "Invalid signature"]), None, 0, <<>>)
        ELSE webhook_after_signature(raw_data, outcome)

\* ------------------------------------------------------------------ inputs
\* The bodies delivered to the running server: the two alerts of the
\* specification's examples, the second one also with a price, and a body
\* that is no JSON.
Missing == [t |-> "missing"]
AlertKeys == {"symbol", "signal", "side", "quantity", "price"}

\* The JSON object with the given members; a Missing member is left out.
Object(symbol, signal, side, quantity, price) ==
    LET all == [k \in AlertKeys |->
                    CASE k = "symbol" -> symbol
                      [] k = "signal" -> signal
                      [] k = "side" -> side
                      [] k = "quantity" -> quantity
                      [] OTHER -> price]
    IN  PyDict([k \in {x \in AlertKeys : all[x] # Missing} |-> all[k]])

BtcAlert == Object(PyStr(BTC), Missing, PyStr(BUY), PyNum(10), Missing)
EthAlert == Object(PyStr(BINANCE_PREFIX \o ETHUSDT), Missing, PyStr(SELL), PyNum(500), Missing)
EthAlertPriced ==
    Object(PyStr(BINANCE_PREFIX \o ETHUSDT), Missing, PyStr(SELL), PyNum(500), PyNum(2000))

WebhookBodies == {Text(BtcAlert), Text(EthAlert), Text(EthAlertPriced), Text(Malformed)}

\* The header values sent with body b: none, the right digest, a digest
\* under another key, and a string that is not ASCII.
SignaturesFor(b) ==
    {Literal(<<>>), hmac_hexdigest(WEBHOOK_SECRET, b),
     hmac_hexdigest("not-the-secret", b), Literal(<<NonAsciiChar>>)}

\* Symbol strings: up to MaxParts pieces, concatenated.
Pieces == {BINANCE_PREFIX, BTC, <<"e", "t", "h">>, USDT, <<"u", "s", "d", "t">>}

RECURSIVE SymbolsOf(_)
SymbolsOf(n) ==
    IF n = 0 THEN {<<>>}
    ELSE LET shorter == SymbolsOf(n - 1)
         IN  shorter \cup {s \o p : s \in shorter, p \in Pieces}

Symbols == SymbolsOf(MaxParts)

SymbolValues == {Missing, PyStr(BTC), PyStr(BINANCE_PREFIX \o ETHUSDT), PyNum(5000), None}
SignalValues == {Missing, PyStr(SELL)}
SideValues == {Missing, PyStr(BUY), PyStr(SELL)}
QuantityValues ==
    {Missing, PyNum(0), PyNum(-500), PyNum(10), PyStr(<<"5">>), PyStr(<<"-", "2">>),
     PyStr(<<"a", "b", "c">>), None, PyList}
PriceValues == {Missing, PyNum(0), PyNum(2000)}

Objects ==
    {Object(sy, sg, sd, q, p) : sy \in SymbolValues, sg \in SignalValues,
                                sd \in SideValues, q \in QuantityValues, p \in PriceValues}

\* JSON documents: objects and the values that are no object.
Documents == Objects \cup {None, PyNum(5000), PyStr(BTC), PyList}

TextBodies == {Text(d) : d \in Documents \cup {Malformed}}

\* What parse_tradingview_alert is called with: a raw text, or a value that
\* is already decoded (a mapping, or anything else that is no string).
ParseInputs ==
    TextBodies \cup (Documents \ {PyStr(BTC)})
        \cup {Object(PyStr(s), Missing, Missing, Missing, Missing) : s \in Symbols}

AllSignaturesFor(b) ==
    SignaturesFor(b) \cup {Literal(<<"n", "o", "t", "h", "e", "x">>),
                           hmac_hexdigest(WEBHOOK_SECRET, Text(Malformed))}

OrderTypes == {"MARKET", "LIMIT", "STOP_LOSS"}

\* ----------------------------------------------------------- state machine
\* requests: the POST /webhook deliveries so far, in order of arrival; each is
\* received, then served by one run of webhook().  invocation: one direct call
\* of a function of the module.
NoResponse == Response(0, [pending |-> TRUE])

Init ==
    /\ requests = <<>>
    /\ invocation = [op |-> "none"]

\* A client posts a body with a signature header.
Post(raw_data, signature) ==
    /\ Len(requests) < MaxRequests
    /\ requests' = Append(requests,
                          [pc |-> "received", raw_data |-> raw_data,
                           signature |-> signature, outcome |-> NoOutcome,
                           response |-> NoResponse, alert_data |-> None,
                           parsed |-> 0, calls |-> <<>>])
    /\ UNCHANGED invocation

\* A worker runs webhook() for request i; the exchange answers the order
\* call, if one is made, with outcome.
Serve(i, outcome) ==
    /\ requests[i].pc = "received"
    /\ LET h == webhook(requests[i].raw_data, requests[i].signature, outcome)
       IN  requests' =
               [requests EXCEPT ![i] =
                   [pc |-> "done", raw_data |-> @.raw_data, signature |-> @.signature,
                    outcome |-> IF h.calls # <<>> THEN outcome ELSE NoOutcome,
                    response |-> h.response, alert_data |-> h.alert_data,
                    parsed |-> h.parsed, calls |-> h.calls]]
    /\ UNCHANGED invocation

Next ==
    \/ Len(requests) < MaxRequests
           /\ \E raw_data \in WebhookBodies : \E signature \in SignaturesFor(raw_data) :
                  Post(raw_data, signature)
    \/ \E i \in 1..Len(requests) : \E outcome \in ExchangeOutcomes : Serve(i, outcome)

Spec == Init /\ [][Next]_vars

\* Direct calls, one per behaviour, on inputs drawn from the sets above.
NotCalled == invocation.op = "none"

CallParse(data) ==
    /\ invocation' = [op |-> "parse_tradingview_alert", data |-> data,
                      ret |-> parse_tradingview_alert(data)]
    /\ UNCHANGED requests

CallPlaceOrder(symbol, side, quantity, order_type, price, outcome) ==
    /\ invocation' = [op |-> "place_order", symbol |-> symbol, side |-> side,
                      quantity |-> quantity, order_type |-> order_type,
                      price |-> price, outcome |-> outcome,
                      ret |-> place_order(symbol, side, quantity, order_type, price,
                                          outcome)]
    /\ UNCHANGED requests

CallWebhook(raw_data, signature, outcome) ==
    /\ invocation' = [op |-> "webhook", raw_data |-> raw_data,
                      signature |-> signature, outcome |-> outcome,
                      ret |-> webhook(raw_data, signature, outcome)]
    /\ UNCHANGED requests

NextFn ==
    \/ NotCalled /\ \E data \in ParseInputs : CallParse(data)
    \/ NotCalled /\ \E symbol \in Symbols : \E side \in {BUY, SELL} :
       \E quantity \in {0, -500, 10} : \E order_type \in OrderTypes :
       \E price \in {None, PyNum(0), PyNum(2000)} : \E outcome \in ExchangeOutcomes :
           CallPlaceOrder(PyStr(symbol), PyStr(side), PyNum(quantity), order_type,
                          price, outcome)
    \/ NotCalled /\ \E raw_data \in TextBodies : \E signature \in AllSignaturesFor(raw_data) :
       \E outcome \in ExchangeOutcomes :
           CallWebhook(raw_data, signature, outcome)

SpecFn == Init /\ [][NextFn]_vars

\* ------------------------------------------------------------------ claims
ReqIds == 1..Len(requests)
Done(i) == requests[i].pc = "done"
RightSignature(raw_data) == hmac_hexdigest(WEBHOOK_SECRET, raw_data)
Unparseable400 == Response(400, [error |-> "Invalid alert data"])

\* C1: a request whose signature header is non-empty and differs from the hex
\* HMAC-SHA256 of its body is answered 401, its alert is never parsed and no
\* order call is made.
C1_BadSignatureIs401 ==
    \A i \in ReqIds :
        (/\ Done(i)
         /\ requests[i].signature # Literal(<<>>)
         /\ requests[i].signature # RightSignature(requests[i].raw_data))
        => /\ requests[i].response.code = 401
           /\ requests[i].parsed = 0
           /\ requests[i].calls = <<>>

\* C2: every request has made at most one order call; a request answered 401,
\* or 400 for an unparseable alert, has made none; a request answered 200 has
\* made exactly one call, which returned; two served deliveries of the same
\* valid body have made two order calls.
C2_AtMostOneOrderCall ==
    /\ \A i \in ReqIds :
        /\ Len(requests[i].calls) <= 1
        /\ requests[i].response.code = 401 => requests[i].calls = <<>>
        /\ requests[i].response = Unparseable400 => requests[i].calls = <<>>
        /\ requests[i].response.code = 200
              => /\ Len(requests[i].calls) = 1
                 /\ requests[i].outcome \in ExchangeOutcomes
                 /\ ~requests[i].outcome.raises
    /\ \A i, j \in ReqIds :
        (/\ i # j /\ Done(i) /\ Done(j)
         /\ requests[i].raw_data = requests[j].raw_data
         /\ requests[i].alert_data # None /\ requests[j].alert_data # None)
        => Len(requests[i].calls) + Len(requests[j].calls) = 2

\* Two deliveries of one body, the first answered 200 and the second 400 after
\* its order call raised: each has made its one call.
C2_Witness ==
    \E i, j \in ReqIds :
        /\ i # j /\ Done(i) /\ Done(j)
        /\ requests[i].raw_data = requests[j].raw_data
        /\ requests[i].response.code = 200
        /\ requests[j].response.code = 400 /\ requests[j].outcome.raises
        /\ Len(requests[i].calls) = 1 /\ Len(requests[j].calls) = 1

\* C3: a request without a signature header is never answered 401 and reaches
\* the parser; it gets the response and makes the exchange call of the same
\* body sent with the right signature (the exchange answering alike).
C3_MissingSignatureIsAccepted ==
    /\ \A i \in ReqIds :
        (Done(i) /\ requests[i].signature = Literal(<<>>))
        => requests[i].response.code # 401 /\ requests[i].parsed = 1
    /\ \A i, j \in ReqIds :
        (/\ Done(i) /\ Done(j)
         /\ requests[i].raw_data = requests[j].raw_data
         /\ requests[i].signature = Literal(<<>>)
         /\ requests[j].signature = RightSignature(requests[j].raw_data)
         /\ \/ requests[i].calls = <<>>
            \/ requests[j].calls = <<>>
            \/ requests[i].outcome = requests[j].outcome)
        => /\ requests[i].response = requests[j].response
           /\ requests[i].calls = requests[j].calls
           /\ requests[i].alert_data = requests[j].alert_data

\* An unsigned and a rightly signed delivery of one body, both answered 200.
C3_Witness ==
    \E i, j \in ReqIds :
        /\ Done(i) /\ Done(j)
        /\ requests[i].raw_data = requests[j].raw_data
        /\ requests[i].signature = Literal(<<>>)
        /\ requests[j].signature = RightSignature(requests[j].raw_data)
        /\ requests[i].response.code = 200 /\ requests[j].response.code = 200

\* Whether float() accepts the value: a number, or a string that is a numeral.
Convertible(v) == v.t = "float" \/ (v.t = "str" /\ IsNumeral(v.s))

\* A document that is no alert: no JSON, no object, a symbol that is no
\* string, or a quantity that does not convert.
NoAlert(doc) ==
    \/ doc = Malformed
    \/ doc.t # "dict"
    \/ doc.t = "dict" /\ "symbol" \in DOMAIN doc.f /\ doc.f["symbol"].t # "str"
    \/ doc.t = "dict" /\ "quantity" \in DOMAIN doc.f /\ ~Convertible(doc.f["quantity"])

PassesSignature(raw_data, signature) ==
    signature = Literal(<<>>) \/ signature = RightSignature(raw_data)

\* C4: a body that passes the signature step and is no alert makes
\* parse_tradingview_alert return None (it does not raise); the response is
\* 400 with an error body, not 500, and no order call is made.
C4_UnparseableAlertIs400 ==
    /\ (invocation.op = "parse_tradingview_alert"
        /\ NoAlert(IF invocation.data.t = "text" THEN invocation.data.doc
                   ELSE invocation.data))
       => invocation.ret = None
    /\ (/\ invocation.op = "webhook"
        /\ PassesSignature(invocation.raw_data, invocation.signature)
        /\ NoAlert(invocation.raw_data.doc))
       => /\ invocation.ret.alert_data = None
          /\ invocation.ret.parsed = 1
          /\ invocation.ret.response = Unparseable400
          /\ invocation.ret.calls = <<>>

\* A rightly signed body whose quantity is the string "abc", answered 400.
C4_Witness ==
    /\ invocation.op = "webhook"
    /\ invocation.signature = RightSignature(invocation.raw_data)
    /\ invocation.raw_data.doc # Malformed
    /\ invocation.raw_data.doc.t = "dict"
    /\ "quantity" \in DOMAIN invocation.raw_data.doc.f
    /\ invocation.raw_data.doc.f["quantity"] = PyStr(<<"a", "b", "c">>)
    /\ invocation.ret.response.code = 400
    /\ invocation.ret.parsed = 1

\* C5: when the exchange order call raises, whatever the exception's text,
\* the response is 400 with status "error" and a non-empty error string.
C5_ExchangeExceptionIs400WithText ==
    \A i \in ReqIds :
        (Done(i) /\ requests[i].calls # <<>> /\ requests[i].outcome.raises)
        => /\ requests[i].response.code = 400
           /\ requests[i].response.json.status = "error"
           /\ requests[i].response.json.error # ""

\* Whether s starts with prefix.
str_startswith(s, prefix) ==
    /\ Len(s) >= Len(prefix)
    /\ SubSeq(s, 1, Len(prefix)) = prefix

\* C6: the parsed symbol is the symbol without its leading "BINANCE:" when it
\* starts with it, and the symbol unchanged otherwise.
C6_PrefixStrippedOnlyAtStart ==
    (/\ invocation.op = "parse_tradingview_alert"
     /\ invocation.data.t = "dict"
     /\ "symbol" \in DOMAIN invocation.data.f
     /\ invocation.data.f["symbol"].t = "str"
     /\ invocation.ret # None)
    => LET s == invocation.data.f["symbol"].s
       IN  invocation.ret.symbol.s =
               IF str_startswith(s, BINANCE_PREFIX)
               THEN SubSeq(s, Len(BINANCE_PREFIX) + 1, Len(s))
               ELSE s

\* C7: the symbol sent to the exchange ends with "USDT"; it is the symbol
\* itself when that already ends with "USDT" and its upper case plus "USDT"
\* otherwise; sending the sent symbol again sends it unchanged; the alert
\* BTC / BUY / 0.01 is sent as a market order for "BTCUSDT".
C7_SymbolNormalizationIdempotent ==
    /\ invocation.op = "place_order"
       => \A k \in 1..Len(invocation.ret.calls) :
            LET s == invocation.symbol.s
                sent == invocation.ret.calls[k].symbol
                again == place_order(PyStr(sent), invocation.side, invocation.quantity,
                                     invocation.order_type, invocation.price,
                                     invocation.outcome)
            IN  /\ str_endswith(sent, USDT)
                /\ str_endswith(s, USDT) => sent = s
                /\ ~str_endswith(s, USDT) => sent = str_upper(s) \o USDT
                /\ Len(again.calls) = 1 /\ again.calls[1].symbol = sent
    /\ (/\ invocation.op = "place_order"
        /\ invocation.symbol = PyStr(BTC) /\ invocation.side = PyStr(BUY)
        /\ invocation.quantity = PyNum(10) /\ invocation.order_type = "MARKET")
       => invocation.ret.calls = <<MarketCall(BTCUSDT, PyStr(BUY), PyNum(10))>>
    /\ (/\ invocation.op = "webhook"
        /\ invocation.raw_data = Text(BtcAlert)
        /\ PassesSignature(invocation.raw_data, invocation.signature))
       => invocation.ret.calls = <<MarketCall(BTCUSDT, PyStr(BUY), PyNum(10))>>

\* A mixed-case symbol that already ends with "USDT", sent as it is.
C7_Witness ==
    /\ invocation.op = "place_order"
    /\ invocation.symbol = PyStr(<<"e", "t", "h">> \o USDT)
    /\ Len(invocation.ret.calls) = 1
    /\ invocation.ret.calls[1].symbol = <<"e", "t", "h">> \o USDT

\* The number a supplied quantity stands for.
QuantityNumber(v) ==
    CASE v = PyStr(<<"5">>) -> PyNum(5000)
      [] v = PyStr(<<"-", "2">>) -> PyNum(-2000)
      [] OTHER -> v

\* The member of the object, or the default of a missing one.
Supplied(doc, key, default) == IF key \in DOMAIN doc.f THEN doc.f[key] ELSE default

\* C8: in the parsed alert every missing optional field has its default
\* (signal "BUY", side "BUY", quantity 0.001, price None) and every present
\* one its supplied value, the quantity as a number; a quantity of zero or
\* less goes to the exchange call unchanged.
C8_DefaultsAndQuantityPassThrough ==
    /\ (/\ invocation.op = "parse_tradingview_alert"
        /\ ~NoAlert(IF invocation.data.t = "text" THEN invocation.data.doc
                    ELSE invocation.data))
       => LET doc == IF invocation.data.t = "text" THEN invocation.data.doc
                     ELSE invocation.data
          IN  /\ invocation.ret # None
              /\ invocation.ret.signal = Supplied(doc, "signal", PyStr(BUY))
              /\ invocation.ret.side = Supplied(doc, "side", PyStr(BUY))
              /\ invocation.ret.quantity
                     = QuantityNumber(Supplied(doc, "quantity", PyNum(1)))
              /\ invocation.ret.price = Supplied(doc, "price", None)
    /\ (/\ invocation.op = "webhook"
        /\ PassesSignature(invocation.raw_data, invocation.signature)
        /\ ~NoAlert(invocation.raw_data.doc)
        /\ "quantity" \in DOMAIN invocation.raw_data.doc.f
        /\ invocation.raw_data.doc.f["quantity"].t = "float"
        /\ invocation.raw_data.doc.f["quantity"].n <= 0)
       => /\ Len(invocation.ret.calls) = 1
          /\ invocation.ret.calls[1].quantity = invocation.raw_data.doc.f["quantity"]
          /\ invocation.ret.response # Unparseable400

\* An unsigned alert with only a symbol and the quantity 0: the order call is
\* made with side "BUY" and quantity 0.
C8_Witness ==
    /\ invocation.op = "webhook"
    /\ invocation.signature = Literal(<<>>)
    /\ invocation.raw_data = Text(Object(PyStr(BTC), Missing, Missing, PyNum(0), Missing))
    /\ invocation.ret.alert_data # None
    /\ invocation.ret.alert_data.signal = PyStr(BUY)
    /\ invocation.ret.alert_data.price = None
    /\ invocation.ret.calls = <<MarketCall(BTCUSDT, PyStr(BUY), PyNum(0))>>

\* C9: MARKET makes one market-order call; LIMIT with a supplied numeric price
\* (0 included) makes one limit-order call with time in force "GTC"; any other
\* combination makes no call and fails with an invalid-order-type error.
C9_OrderTypeSelectsCall ==
    invocation.op = "place_order"
    => LET calls == invocation.ret.calls
           sym == NormalizeSymbol(invocation.symbol.s)
       IN  /\ invocation.order_type = "MARKET"
                => calls = <<MarketCall(sym, invocation.side, invocation.quantity)>>
           /\ (invocation.order_type = "LIMIT" /\ invocation.price # None)
                => /\ Len(calls) = 1
                   /\ calls[1].fn = "order_limit"
                   /\ calls[1].timeInForce = "GTC"
                   /\ calls[1].price = invocation.price
           /\ ~(\/ invocation.order_type = "MARKET"
                \/ invocation.order_type = "LIMIT" /\ invocation.price # None)
                => /\ calls = <<>>
                   /\ invocation.ret.result
                        = Failure("Invalid order type: " \o invocation.order_type)

\* Two objects with the same members, the price aside.
SameButPrice(a, b) ==
    /\ a # Malformed /\ b # Malformed
    /\ a.t = "dict" /\ b.t = "dict"
    /\ DOMAIN a.f \ {"price"} = DOMAIN b.f \ {"price"}
    /\ \A k \in DOMAIN a.f \ {"price"} : a.f[k] = b.f[k]

\* C10: every order call of a webhook request is a market-order call, and two
\* requests whose alerts differ in the price only make the same call.
C10_WebhookOrdersAreMarketOrders ==
    /\ \A i \in ReqIds : \A k \in 1..Len(requests[i].calls) :
        /\ requests[i].calls[k].fn = "order_market"
        /\ DOMAIN requests[i].calls[k] = {"fn", "symbol", "side", "quantity"}
    /\ \A i, j \in ReqIds :
        (/\ Done(i) /\ Done(j)
         /\ SameButPrice(requests[i].raw_data.doc, requests[j].raw_data.doc)
         /\ requests[i].alert_data # None /\ requests[j].alert_data # None)
        => requests[i].calls = requests[j].calls

\* The same alert served without and with a price: one market order each.
C10_Witness ==
    \E i, j \in ReqIds :
        /\ Done(i) /\ Done(j)
        /\ requests[i].raw_data = Text(EthAlert)
        /\ requests[j].raw_data = Text(EthAlertPriced)
        /\ requests[j].alert_data # None
        /\ requests[j].alert_data.price = PyNum(2000)
        /\ Len(requests[i].calls) = 1
        /\ requests[i].calls = requests[j].calls
        /\ requests[j].calls[1].fn = "order_market"

====
